---- MODULE Spec2Model ----
(***************************************************************************)
(* OrkGame backend: the combat state machine GameSession.act               *)
(* (src/backend/storage.py) driven by the effects of ActionEnum.effect     *)
(* (src/backend/action.py).                                                *)
(*                                                                         *)
(* A session is a record with the fields of the pydantic model             *)
(* GameSession.  act mutates the session object in place, statement by     *)
(* statement, so when a statement raises, the assignments made before it   *)
(* stay in the session and the statements after it never run.  The         *)
(* operators below return a pair [session, raised] to carry that.          *)
(*                                                                         *)
(* Arithmetic.  act computes damage * (1 / armor) * rage in floating       *)
(* point.  The model computes it exactly, as the fraction                  *)
(* (damage * rage) / armor.  The two agree in every reachable state: the   *)
(* divisor is 1 there (DivisorsAreOne below), so 1 / armor is 1.0 and the  *)
(* products are small integers, which doubles represent exactly.           *)
(*                                                                         *)
(* Around it: the relay of src/backend/ipc.py, which applies the messages  *)
(* of the tool process (src/backend/mcp_server.py) to the Session Table,   *)
(* and the persistence of the table (read_state, write_state).  Each has   *)
(* its own specification over the same variables: Spec (act on one         *)
(* session), SpecEffect (the resolver), SpecRelay and SpecRelayFair (the   *)
(* relay), SpecTools (the tools), SpecStore (the table and its file) and   *)
(* SpecDurable (the relay beside the HTTP requests that save the table).   *)
(***************************************************************************)
EXTENDS Integers, Sequences, FiniteSets

VARIABLES
    session,    \* the GameSession object the calls act on
    last,       \* the latest act call: its arguments, the session before it,
                \* and whether it raised
    resolved,   \* the latest call of ActionEnum.effect: the action, the
                \* outcome of each random roll, and the Effect returned
    state,      \* app.state.state, the Session Table: session name -> session
    conns,      \* the open connections of the relay: number -> connection
    accepted,   \* the number of connections the relay has accepted
    handled,    \* the connection the relay closed last, what its client
                \* had sent and how the handling went
    dropped,    \* the number of connections closed on a bad message
    disk,       \* the file state.json
    saved,      \* the table the latest write_state was given
    loaded,     \* the start of the server from the file as it is: the table
                \* read_state returned and the table the file was written from
    toolcalls,  \* the tool invocations in the tool process, in order
    inflight    \* the HTTP requests whose handler has returned and whose
                \* write_state is still to come, where a specification
                \* follows a request through both (SpecDurable)

vars == <<session, last, resolved, state, conns, accepted, handled, dropped,
          disk, saved, loaded, toolcalls, inflight>>

\* The variables of the combat state machine alone, of the resolver alone,
\* of the main process and of the tool process.
actVars == <<session, last>>
effectVars == <<resolved>>
relayVars == <<conns, accepted, handled, dropped>>
storeVars == <<disk, saved, loaded>>
httpVars == <<inflight>>
serverVars == <<state, relayVars, storeVars, httpVars>>
toolVars == <<toolcalls>>

(***************************************************************************)
(* Bounds of the model.                                                    *)
(***************************************************************************)
\* Values taken from the range of each random.randint roll: both end points
\* and evenly spread interior points.
DrawsPerRoll == 3
\* act is called while the actions log is shorter than this.
MaxActions == 2
\* act is called while kills is below this.
MaxKills == 2
\* The relay accepts this many connections.
MaxConns == 2
\* The tool process is asked for this many tool invocations.
MaxCalls == 2
\* The HTTP layer has this many requests in flight.
MaxRequests == 1

(***************************************************************************)
(* action.py: the random rolls.                                            *)
(***************************************************************************)
\* random.randint(a, b): an integer of a..b, both ends included.  The model
\* draws DrawsPerRoll values of the range, a and b among them.
randint(a, b) ==
    { a + (i * (b - a)) \div (DrawsPerRoll - 1) : i \in 0..(DrawsPerRoll - 1) }

rocket_damage == randint(0, 50)

\* random.random() > p: either outcome.
rocket_hit == BOOLEAN
charge_hit == BOOLEAN
granade_hit == BOOLEAN
flamethrower_fail == BOOLEAN

\* Every value random.randint(a, b) can return.
RandRange(a, b) == a..b

\* int(-2 * r + 10): the factor -0.2 written as -2.
LossOfRollSteep(r) == 10 - 2 * r

\* int(-0.2 * r + 10) for the roll r.  int truncates towards zero; for r of
\* 0..8 the value is positive, so this is floor((100 - 2 r) / 10): 10 for
\* r = 0, 9 for r = 1..5 and 8 for r = 6..8, as the floating point
\* expression gives.
LossOfRoll(r) ==
    IF 100 - 2 * r >= 0 THEN (100 - 2 * r) \div 10 ELSE -((2 * r - 100) \div 10)

\* fail_dmg_boost_loss(), for r = randint(0, 8).
fail_dmg_boost_loss == { LossOfRoll(r) : r \in randint(0, 8) }

\* Effect(): every field defaults to 0.
Effect ==
    [ self_heal |-> 0, self_damage |-> 0, enemy_damage |-> 0, enemy_heal |-> 0,
      gain_armor |-> 0, gain_damage_boost |-> 0,
      loose_armor |-> 0, loose_damage_boost |-> 0 ]

\* The values of the enumeration ActionEnum (patch_up has the value "heal").
ActionEnum ==
    { "shoot_rocket", "rage_up", "heal", "charge", "throw_granade",
      "fire_flamethrower" }

\* A miss: damage to oneself and a loss of rage.
Miss(damage) ==
    { [Effect EXCEPT !.self_damage = damage, !.loose_damage_boost = l] :
        l \in fail_dmg_boost_loss }

\* ActionEnum.effect: the effects the action can resolve to.
effect(action) ==
    CASE action = "shoot_rocket" ->
           UNION { IF hit
                     THEN { [Effect EXCEPT !.enemy_damage = d] : d \in rocket_damage }
                     ELSE UNION { Miss(d) : d \in rocket_damage }
                   : hit \in rocket_hit }
      [] action = "rage_up" ->
           { [Effect EXCEPT !.gain_damage_boost = g] : g \in randint(0, 10) }
      [] action = "heal" ->
           { [Effect EXCEPT !.self_heal = h, !.enemy_heal = r \div 2] :
               h \in randint(5, 50), r \in randint(5, 50) }
      [] action = "charge" ->
           UNION { IF hit
                     THEN { [Effect EXCEPT !.enemy_damage = 40, !.self_damage = 10] }
                     ELSE Miss(30)
                   : hit \in charge_hit }
      [] action = "throw_granade" ->
           UNION { IF hit
                     THEN { [Effect EXCEPT !.enemy_damage = 25] }
                     ELSE Miss(25)
                   : hit \in granade_hit }
      [] action = "fire_flamethrower" ->
           UNION { IF ok
                     THEN { [Effect EXCEPT !.enemy_damage = 100] }
                     ELSE Miss(100)
                   : ok \in flamethrower_fail }

(***************************************************************************)
(* ActionEnum.effect as a function of the outcomes of its rolls: hit is    *)
(* the outcome of the branch's random.random() test, roll1 of the first    *)
(* random.randint of the branch and roll2 of the second.                   *)
(***************************************************************************)
Resolve(action, hit, roll1, roll2) ==
    CASE action = "shoot_rocket" ->
           IF hit
             THEN [Effect EXCEPT !.enemy_damage = roll1]
             ELSE [Effect EXCEPT !.self_damage = roll1,
                                 !.loose_damage_boost = LossOfRoll(roll2)]
      [] action = "rage_up" ->
           [Effect EXCEPT !.gain_damage_boost = roll1]
      [] action = "heal" ->
           [Effect EXCEPT !.self_heal = roll1, !.enemy_heal = roll2 \div 2]
      [] action = "charge" ->
           IF hit
             THEN [Effect EXCEPT !.enemy_damage = 40, !.self_damage = 10]
             ELSE [Effect EXCEPT !.self_damage = 30,
                                 !.loose_damage_boost = LossOfRoll(roll2)]
      [] action = "throw_granade" ->
           IF hit
             THEN [Effect EXCEPT !.enemy_damage = 25]
             ELSE [Effect EXCEPT !.self_damage = 25,
                                 !.loose_damage_boost = LossOfRoll(roll2)]
      [] action = "fire_flamethrower" ->
           IF hit
             THEN [Effect EXCEPT !.enemy_damage = 100]
             ELSE [Effect EXCEPT !.self_damage = 100,
                                 !.loose_damage_boost = LossOfRoll(roll2)]

\* The values of the first random.randint of the branch (0 where the branch
\* makes none).
FirstRoll(action, hit) ==
    CASE action = "shoot_rocket" -> RandRange(0, 50)
      [] action = "rage_up" -> RandRange(0, 10)
      [] action = "heal" -> RandRange(5, 50)
      [] OTHER -> {0}

\* The values of the second random.randint of the branch (0 where the branch
\* makes none): the roll of fail_dmg_boost_loss on a miss, the enemy's heal.
SecondRoll(action, hit) ==
    CASE action = "heal" -> RandRange(5, 50)
      [] action = "rage_up" -> {0}
      [] OTHER -> IF hit THEN {0} ELSE RandRange(0, 8)

(***************************************************************************)
(* storage.py: the data model.                                             *)
(***************************************************************************)
Actor == { "player", "enemy" }

\* Action(name=..., actor=..., effect=...)
Action(name, actor, eff) == [ name |-> name, actor |-> actor, effect |-> eff ]

\* The fields the pydantic model GameSession declares.
GameSessionFields ==
    { "name", "currenthealth", "maxhealth", "armor", "rage",
      "enemycurrenthealth", "enemymaxhealth", "enemyrage", "enemyarmor",
      "gameover", "kills", "current_enemy", "actions" }

\* GameSession.new_session(name)
new_session(name) ==
    [ name |-> name,
      currenthealth |-> 100, maxhealth |-> 100, armor |-> 1, rage |-> 1,
      enemycurrenthealth |-> 100, enemymaxhealth |-> 100,
      enemyrage |-> 1, enemyarmor |-> 1,
      gameover |-> FALSE, kills |-> 0,
      current_enemy |-> [ role |-> "Loota" ],
      actions |-> << >> ]

(***************************************************************************)
(* storage.py: GameSession.act, one operator per block of the method.      *)
(***************************************************************************)
\* total > damage * (1 / divisor) * multiplier, for divisor >= 1
Exceeds(total, damage, divisor, multiplier) ==
    total * divisor > damage * multiplier

\* math.ceil(total - damage * (1 / divisor) * multiplier), for divisor >= 1
CeilNet(total, damage, divisor, multiplier) ==
    total - ((damage * multiplier) \div divisor)

\* PlayerHealth without the cap at maxhealth (lines 79-80 left out).
PlayerHealthUncapped(self, eff) ==
    IF Exceeds(self.currenthealth + eff.self_heal,
               eff.self_damage, self.armor, self.enemyrage)
      THEN [self EXCEPT !.currenthealth =
                CeilNet(self.currenthealth + eff.self_heal,
                        eff.self_damage, self.armor, self.enemyrage)]
      ELSE [self EXCEPT !.currenthealth = 0, !.gameover = TRUE]

\* PlayerHealth with >= for > in the test of line 71.
PlayerHealthSurvivesAtZero(self, eff) ==
    IF (self.currenthealth + eff.self_heal) * self.armor
           >= eff.self_damage * self.enemyrage
      THEN LET h == CeilNet(self.currenthealth + eff.self_heal,
                            eff.self_damage, self.armor, self.enemyrage)
           IN  [self EXCEPT !.currenthealth =
                                IF h > self.maxhealth THEN self.maxhealth ELSE h]
      ELSE [self EXCEPT !.currenthealth = 0, !.gameover = TRUE]

\* PlayerHealth without the assignment of gameover (line 83 left out).
PlayerHealthWithoutGameover(self, eff) ==
    IF Exceeds(self.currenthealth + eff.self_heal,
               eff.self_damage, self.armor, self.enemyrage)
      THEN LET h == CeilNet(self.currenthealth + eff.self_heal,
                            eff.self_damage, self.armor, self.enemyrage)
           IN  [self EXCEPT !.currenthealth =
                                IF h > self.maxhealth THEN self.maxhealth ELSE h]
      ELSE [self EXCEPT !.currenthealth = 0]

\* Lines 71-83: the player's health, or the end of the game.
PlayerHealth(self, eff) ==
    IF Exceeds(self.currenthealth + eff.self_heal,
               eff.self_damage, self.armor, self.enemyrage)
      THEN LET h == CeilNet(self.currenthealth + eff.self_heal,
                            eff.self_damage, self.armor, self.enemyrage)
           IN  [self EXCEPT !.currenthealth =
                                IF h > self.maxhealth THEN self.maxhealth ELSE h]
      ELSE [self EXCEPT !.currenthealth = 0, !.gameover = TRUE]

\* Lines 84-88: armor, not below 1.
ArmorUpdate(self, eff) ==
    IF self.armor + eff.gain_armor - eff.loose_armor >= 1
      THEN [self EXCEPT !.armor = self.armor + eff.gain_armor - eff.loose_armor]
      ELSE [self EXCEPT !.armor = 1]

\* RageUpdate without the floor at 1 (lines 92-93 left out).
RageUpdateUnfloored(self, eff) ==
    [self EXCEPT !.rage =
        self.rage + eff.gain_damage_boost - eff.loose_damage_boost]

\* Lines 89-93: rage, not below 1.
RageUpdate(self, eff) ==
    IF self.rage + eff.gain_damage_boost - eff.loose_damage_boost >= 1
      THEN [self EXCEPT !.rage =
                self.rage + eff.gain_damage_boost - eff.loose_damage_boost]
      ELSE [self EXCEPT !.rage = 1]

\* An assignment self.<attr> = value on a pydantic model: a declared field is
\* set; any other name makes BaseModel.__setattr__ raise ValueError
\* ('"GameSession" object has no field ...') and sets nothing.
SetAttr(self, attr, value) ==
    IF attr \in GameSessionFields
      THEN [ session |-> [self EXCEPT ![attr] = value], raised |-> FALSE ]
      ELSE [ session |-> self, raised |-> TRUE ]

\* Escalate with the new enemy's health computed from kills before the
\* increment (lines 106 and 107 swapped).
EscalateBeforeCounting(self) ==
    LET s1 == [self EXCEPT !.enemycurrenthealth = 100 + (50 * self.kills)]
        s2 == [s1 EXCEPT !.kills = s1.kills + 1]
    IN  SetAttr(s2, "enemymax", 100 + (50 * s2.kills))

\* Lines 105-111: the enemy is defeated and a stronger one takes its place.
\* The third assignment names the attribute enemymax.
Escalate(self) ==
    LET s1 == [self EXCEPT !.kills = self.kills + 1]
        s2 == [s1 EXCEPT !.enemycurrenthealth = 100 + (50 * s1.kills)]
        r3 == SetAttr(s2, "enemymax", 100 + (50 * s2.kills))
        s3 == r3.session
    IN  IF r3.raised
          THEN r3
          ELSE [ session |->
                   [s3 EXCEPT !.enemyrage = 1 + (s3.kills \div 2),
                              !.enemyarmor = 1 + (s3.kills \div 2),
                              !.maxhealth = s3.maxhealth + 20],
                 raised |-> FALSE ]

\* EnemyHealth without the cap at enemymaxhealth (lines 103-104 left out).
EnemyHealthUncapped(self, eff) ==
    IF Exceeds(self.enemycurrenthealth + eff.enemy_heal,
               eff.enemy_damage, self.enemyarmor, self.rage)
      THEN [ session |->
               [self EXCEPT !.enemycurrenthealth =
                   CeilNet(self.enemycurrenthealth + eff.enemy_heal,
                           eff.enemy_damage, self.enemyarmor, self.rage)],
             raised |-> FALSE ]
      ELSE Escalate(self)

\* EnemyHealth with >= for > in the test of line 95.
EnemyHealthSurvivesAtZero(self, eff) ==
    IF (self.enemycurrenthealth + eff.enemy_heal) * self.enemyarmor
           >= eff.enemy_damage * self.rage
      THEN LET h == CeilNet(self.enemycurrenthealth + eff.enemy_heal,
                            eff.enemy_damage, self.enemyarmor, self.rage)
           IN  [ session |->
                   [self EXCEPT !.enemycurrenthealth =
                       IF h > self.enemymaxhealth THEN self.enemymaxhealth ELSE h],
                 raised |-> FALSE ]
      ELSE Escalate(self)

\* Lines 95-111: the enemy's health, computed with the rage just updated.
EnemyHealth(self, eff) ==
    IF Exceeds(self.enemycurrenthealth + eff.enemy_heal,
               eff.enemy_damage, self.enemyarmor, self.rage)
      THEN LET h == CeilNet(self.enemycurrenthealth + eff.enemy_heal,
                            eff.enemy_damage, self.enemyarmor, self.rage)
           IN  [ session |->
                   [self EXCEPT !.enemycurrenthealth =
                       IF h > self.enemymaxhealth THEN self.enemymaxhealth ELSE h],
                 raised |-> FALSE ]
      ELSE Escalate(self)

\* Line 113: the log entry; the actor written is always Actor.player.
AppendAction(self, action, eff, player_turn) ==
    [self EXCEPT !.actions = Append(self.actions, Action(action, "player", eff))]

\* GameSession.act(action, player_turn), with the effect that
\* action.effect() resolved to.
act(self, action, eff, player_turn) ==
    LET s1 == PlayerHealth(self, eff)
        s2 == ArmorUpdate(s1, eff)
        s3 == RageUpdate(s2, eff)
        r4 == EnemyHealth(s3, eff)
    IN  IF r4.raised
          THEN r4
          ELSE [ session |-> AppendAction(r4.session, action, eff, player_turn),
                 raised |-> FALSE ]

(***************************************************************************)
(* ipc.py: the wire format.  A line on the socket is a text: the text of a *)
(* JSON object, held as the sequence of its members <<key, value>> in the  *)
(* order written, or a text that is no JSON.                               *)
(***************************************************************************)
\* json.dumps(dict): the members in the order keys gives.
json_dumps(keys, dict) ==
    [ json |-> TRUE,
      members |-> [ i \in 1..Len(keys) |-> <<keys[i], dict[keys[i]]>> ] ]

\* A line that json.loads rejects.
NotJson == [ json |-> FALSE, members |-> << >> ]

\* The value of key in a sequence of members: the last member of that key.
MemberValue(members, key) ==
    LET at == { i \in DOMAIN members : members[i][1] = key }
        top == CHOOSE i \in at : \A j \in at : j <= i
    IN  members[top][2]

MemberKeys(members) == { members[i][1] : i \in DOMAIN members }

\* json.loads(data): the dict of the object, or JSONDecodeError.
json_loads(text) ==
    IF text.json
      THEN [ raised |-> FALSE,
             value |-> [ k \in MemberKeys(text.members) |->
                           MemberValue(text.members, k) ] ]
      ELSE [ raised |-> TRUE, value |-> << >> ]

\* send_ipc_message(session_name, action, player_turn): what the client
\* writes before it closes the socket, one line.  An ActionEnum member is
\* written as its value.
send_ipc_message(session_name, action, player_turn) ==
    << json_dumps(<<"session_name", "action", "player_turn">>,
                  [ session_name |-> session_name, action |-> action,
                    player_turn |-> player_turn ]) >>

(***************************************************************************)
(* mcp_server.py: the tools of the tool process.                           *)
(***************************************************************************)
\* The members of ActionEnum: name -> value.
ActionEnumMembers ==
    [ shoot_rocket |-> "shoot_rocket", rage_up |-> "rage_up",
      patch_up |-> "heal", charge |-> "charge",
      throw_granade |-> "throw_granade",
      fire_flamethrower |-> "fire_flamethrower" ]

\* The functions registered with @mcp.tool().
Tools ==
    { "shoot_rocket", "rage_up", "patch_up", "charge", "throw_granade",
      "fire_flamethrower", "armor_up", "omniboost" }

\* The attribute of ActionEnum the tool's body names: each tool names the
\* attribute of its own name.
ToolMember(tool) == tool

\* One invocation of a tool: ActionEnum.<member> is evaluated first, and
\* raises AttributeError when the enumeration has no such member; then
\* send_ipc_message connects and writes.  sent holds what each connection
\* the invocation opened was sent.
tool_call(tool, session_id, player_turn) ==
    IF ToolMember(tool) \in DOMAIN ActionEnumMembers
      THEN [ raised |-> FALSE,
             sent |-> << send_ipc_message(session_id,
                             ActionEnumMembers[ToolMember(tool)],
                             player_turn) >> ]
      ELSE [ raised |-> TRUE, sent |-> << >> ]

(***************************************************************************)
(* ipc.py: ipc_server.handle_client, from the return of readline to        *)
(* writer.close(): no await lies between them, so the event loop runs      *)
(* nothing else in between.                                                *)
(***************************************************************************)
\* act, were it to log the call before it parses the action.
act_logging_unparsed(self, action, eff, player_turn) ==
    IF action \in ActionEnum
      THEN act(self, action, eff, player_turn)
      ELSE [ session |-> AppendAction(self, action, eff, player_turn),
             raised |-> TRUE ]

\* session.act(action, player_turn) with the action as received: line 68,
\* ActionEnum(action), raises ValueError for a string that is no value of
\* the enumeration, before act has changed anything.
act_received(self, action, eff, player_turn) ==
    IF action \in ActionEnum
      THEN act(self, action, eff, player_turn)
      ELSE [ session |-> self, raised |-> TRUE ]

\* The table with the session of that name replaced.
WithSession(table, name, s) ==
    [ n \in (DOMAIN table) \cup {name} |-> IF n = name THEN s ELSE table[n] ]

\* A lookup that creates the session the table lacks, as the HTTP layer does.
get_or_create(table, name) ==
    IF name \in DOMAIN table THEN { table[name] } ELSE { new_session(name) }

\* A lookup that returns the session as it was created, not as it is.
getitem_as_created(table, name) ==
    IF name \in DOMAIN table THEN { new_session(name) } ELSE { }

\* state[name] at line 27: the session of that name, none (KeyError) when
\* the table has no such key.
getitem(table, name) ==
    IF name \in DOMAIN table THEN { table[name] } ELSE { }

\* Lines 26-32 for the line read, when the effect the action resolves to is
\* eff: the table afterwards, how the handling ended and the number of act
\* calls.  Line 27 evaluates message["session_name"], then the lookup in
\* the table, then message["action"] and message["player_turn"], then act;
\* every exception is an Exception and is caught at line 31.
handle_line(table, line, eff) ==
    LET message == json_loads(line)
        m == message.value
        Ends(tbl, how, n) == [ table |-> tbl, outcome |-> how, acts |-> n ]
    IN  IF message.raised \/ "session_name" \notin DOMAIN m
          THEN Ends(table, "malformed", 0)
        ELSE IF getitem(table, m["session_name"]) = { }
          THEN Ends(table, "no_session", 0)
        ELSE IF "action" \notin DOMAIN m \/ "player_turn" \notin DOMAIN m
          THEN Ends(table, "malformed", 0)
        ELSE
          LET self == CHOOSE s \in getitem(table, m["session_name"]) : TRUE
              r == act_received(self, m["action"], eff, m["player_turn"])
          IN  Ends(WithSession(table, m["session_name"], r.session),
                   IF m["action"] \notin ActionEnum
                     THEN "bad_action"
                     ELSE IF r.raised THEN "act_raised" ELSE "applied",
                   1)

\* handle_client, were it to read the lines of the connection in a loop.
RECURSIVE handle_every_line(_, _, _)
handle_every_line(table, lines, eff) ==
    IF lines = << >>
      THEN [ table |-> table, outcome |-> "empty", acts |-> 0,
             written |-> 0, unread |-> 0 ]
      ELSE
        LET r == handle_line(table, lines[1], eff)
            rest == handle_every_line(r.table, Tail(lines), eff)
        IN  [ table |-> rest.table, outcome |-> r.outcome,
              acts |-> r.acts + rest.acts, written |-> 0, unread |-> 0 ]

\* Lines 23-35 for a connection whose client sent lines: the table
\* afterwards, how the handling ended, the number of act calls, what was
\* written to the client and the lines left unread.  readline returns the
\* first line, or nothing when the client sent nothing (line 24).
handle_client(table, lines, eff) ==
    IF lines = << >>
      THEN [ table |-> table, outcome |-> "empty", acts |-> 0,
             written |-> 0, unread |-> 0 ]
      ELSE
        LET r == handle_line(table, lines[1], eff)
        IN  [ table |-> r.table, outcome |-> r.outcome, acts |-> r.acts,
              written |-> 0, unread |-> Len(lines) - 1 ]

(***************************************************************************)
(* storage.py: the persistence of the table.  A JSON object is held as     *)
(* its members <<key, value>>, the members of a model in the order of its  *)
(* fields; the object of the table as the set of its members.              *)
(***************************************************************************)
EffectFieldOrder ==
    << "self_heal", "self_damage", "enemy_damage", "enemy_heal",
       "gain_armor", "gain_damage_boost", "loose_armor", "loose_damage_boost" >>

ActionFieldOrder == << "name", "actor", "effect" >>

GameSessionFieldOrder ==
    << "name", "currenthealth", "maxhealth", "armor", "rage",
       "enemycurrenthealth", "enemymaxhealth", "enemyrage", "enemyarmor",
       "gameover", "kills", "current_enemy", "actions" >>

\* The members of a model whose field values are given.
Members(order, values) ==
    [ i \in 1..Len(order) |-> <<order[i], values[order[i]]>> ]

dump_effect(eff) == Members(EffectFieldOrder, eff)

dump_action(a) ==
    Members(ActionFieldOrder, [a EXCEPT !.effect = dump_effect(a.effect)])

\* dump_session that leaves the actions log out.
dump_session_without_actions(s) ==
    Members(SubSeq(GameSessionFieldOrder, 1, Len(GameSessionFieldOrder) - 1),
            [s EXCEPT !.current_enemy = Members(<<"role">>, s.current_enemy)])

dump_session(s) ==
    Members(GameSessionFieldOrder,
            [s EXCEPT !.current_enemy = Members(<<"role">>, s.current_enemy),
                      !.actions = [ i \in 1..Len(s.actions) |->
                                      dump_action(s.actions[i]) ]])

\* SessionStorage.dump_json(state)
dump_json(table) == { <<n, dump_session(table[n])>> : n \in DOMAIN table }

\* Validation of an Effect: every field has the default 0.
validate_effect(members) ==
    [ f \in { EffectFieldOrder[i] : i \in DOMAIN EffectFieldOrder } |->
        IF f \in MemberKeys(members) THEN MemberValue(members, f) ELSE 0 ]

\* Validation of an Action: the three fields are required, name must be a
\* value of ActionEnum and actor a value of Actor.
action_valid(members) ==
    /\ { "name", "actor", "effect" } \subseteq MemberKeys(members)
    /\ MemberValue(members, "name") \in ActionEnum
    /\ MemberValue(members, "actor") \in Actor

validate_action(members) ==
    [ name |-> MemberValue(members, "name"),
      actor |-> MemberValue(members, "actor"),
      effect |-> validate_effect(MemberValue(members, "effect")) ]

\* Validation of a GameSession: every field but actions is required;
\* actions defaults to the empty list; members of other names are ignored.
session_valid(members) ==
    /\ (GameSessionFields \ {"actions"}) \subseteq MemberKeys(members)
    /\ "role" \in MemberKeys(MemberValue(members, "current_enemy"))
    /\ "actions" \in MemberKeys(members) =>
          \A i \in DOMAIN MemberValue(members, "actions") :
              action_valid(MemberValue(members, "actions")[i])

validate_session(members) ==
    [ f \in GameSessionFields |->
        CASE f = "current_enemy" ->
               [ role |-> MemberValue(MemberValue(members, f), "role") ]
          [] f = "actions" ->
               IF f \in MemberKeys(members)
                 THEN [ i \in DOMAIN MemberValue(members, f) |->
                          validate_action(MemberValue(members, f)[i]) ]
                 ELSE << >>
          [] OTHER -> MemberValue(members, f) ]

\* The file before the first write_state.
NoFile == [ exists |-> FALSE, text |-> {} ]

\* write_state(state): the file afterwards.
write_state(table) == [ exists |-> TRUE, text |-> dump_json(table) ]

\* read_state(): the table validated from the file; the empty table when
\* the file is missing or a session does not validate.
read_state(file) ==
    IF file.exists /\ \A kv \in file.text : session_valid(kv[2])
      THEN [ n \in { kv[1] : kv \in file.text } |->
               validate_session((CHOOSE kv \in file.text : kv[1] = n)[2]) ]
      ELSE << >>

(***************************************************************************)
(* The state machine: a new session, and act calls on it.                  *)
(***************************************************************************)
SessionName == "ork"

Init ==
    /\ session = new_session(SessionName)
    /\ last = [ called |-> FALSE, action |-> "none", effect |-> Effect,
                player_turn |-> TRUE, pre |-> new_session(SessionName),
                raised |-> FALSE ]
    /\ resolved = [ called |-> FALSE, action |-> "none", hit |-> FALSE,
                    roll1 |-> 0, roll2 |-> 0, effect |-> Effect ]
    \* api.py, lifespan: the table is read_state() of a folder without file.
    /\ disk = NoFile
    /\ state = read_state(NoFile)
    /\ conns = << >>
    /\ accepted = 0
    /\ handled = [ conn |-> 0, lines |-> << >>, outcome |-> "none",
                   acts |-> 0, written |-> 0, unread |-> 0 ]
    /\ dropped = 0
    /\ saved = << >>
    /\ loaded = [ done |-> FALSE, table |-> << >>, of |-> << >> ]
    /\ toolcalls = << >>
    /\ inflight = 0

\* One call session.act(action, player_turn), as the relay makes it.
Act(action, eff, player_turn) ==
    /\ Len(session.actions) < MaxActions
    /\ session.kills < MaxKills
    /\ LET r == act(session, action, eff, player_turn)
       IN  /\ session' = r.session
           /\ last' = [ called |-> TRUE, action |-> action, effect |-> eff,
                        player_turn |-> player_turn, pre |-> session,
                        raised |-> r.raised ]
    /\ UNCHANGED <<effectVars, serverVars, toolVars>>

Next ==
    \E action \in ActionEnum, player_turn \in BOOLEAN :
        \E eff \in effect(action) : Act(action, eff, player_turn)

Spec == Init /\ [][Next]_vars

(***************************************************************************)
(* The effect resolver alone: calls of ActionEnum.effect, with every       *)
(* outcome of every roll.                                                  *)
(***************************************************************************)
\* One call action.effect() in which the rolls come out as given.  The
\* resolver keeps no state between calls, so one call is followed by none.
ResolveEffect(action, hit, roll1, roll2) ==
    /\ ~resolved.called
    /\ resolved' = [ called |-> TRUE, action |-> action, hit |-> hit,
                     roll1 |-> roll1, roll2 |-> roll2,
                     effect |-> Resolve(action, hit, roll1, roll2) ]
    /\ UNCHANGED <<actVars, serverVars, toolVars>>

NextEffect ==
    \E action \in ActionEnum, hit \in BOOLEAN :
        \E roll1 \in FirstRoll(action, hit), roll2 \in SecondRoll(action, hit) :
            ResolveEffect(action, hit, roll1, roll2)

SpecEffect == Init /\ [][NextEffect]_vars

(***************************************************************************)
(* The main process: the HTTP layer, the relay and the persistence of the  *)
(* table, on one event loop.  Each action is the code between two awaits.  *)
(***************************************************************************)
\* The session names the clients use.
SessionNames == { "ork", "grot" }

\* What the tools of the tool process send for a player's turn.
ToolLines ==
    { tool_call(tl, n, TRUE).sent[1] :
        tl \in { x \in Tools : ~tool_call(x, "ork", TRUE).raised },
        n \in SessionNames }

\* What a client sends on a connection before it closes it: nothing, a
\* message of a tool, a message for the enemy's turn, two messages, a line
\* that is no JSON, a message without its action, a message with an action
\* outside the enumeration.
ClientLines ==
    ToolLines
      \cup { send_ipc_message("ork", "charge", FALSE) }
      \cup { send_ipc_message("ork", a, TRUE) \o send_ipc_message("ork", a, TRUE) :
               a \in { "heal", "fire_flamethrower" } }
      \cup { << >>, << NotJson >>,
             << json_dumps(<<"session_name", "player_turn">>,
                           [ session_name |-> "ork", player_turn |-> TRUE ]) >>,
             send_ipc_message("ork", "armor_up", TRUE) }

\* The highest roll of a range.
TopRoll(range) == CHOOSE r \in range : \A x \in range : x <= r

\* ActionEnum.effect in the relay: the test of the branch goes either way
\* and each random.randint returns the top of its range.
relay_effect(action) ==
    { Resolve(action, hit, TopRoll(FirstRoll(action, hit)),
              TopRoll(SecondRoll(action, hit))) : hit \in BOOLEAN }

\* The effects the action of the connection's first line can resolve to
\* (the default Effect when act never comes to resolve one).
EffectsOfLines(lines) ==
    IF lines # << >> /\ lines[1].json
         /\ "action" \in MemberKeys(lines[1].members)
         /\ MemberValue(lines[1].members, "action") \in ActionEnum
      THEN relay_effect(MemberValue(lines[1].members, "action"))
      ELSE { Effect }

\* api.py, current_session_state: the session of the cookie is created when
\* the table has none, and stored.
HttpSessionState(name) ==
    /\ name \notin DOMAIN state
    /\ state' = WithSession(state, name, new_session(name))
    /\ UNCHANGED <<relayVars, storeVars>>
    /\ UNCHANGED <<actVars, effectVars, toolVars, httpVars>>

\* ipc.py, asyncio.start_unix_server: a client has connected; handle_client
\* starts for the connection and awaits readline.
Connect ==
    /\ accepted < MaxConns
    /\ accepted' = accepted + 1
    /\ conns' = [ c \in (DOMAIN conns) \cup {accepted + 1} |->
                    IF c = accepted + 1 THEN "readline" ELSE conns[c] ]
    /\ UNCHANGED <<state, handled, dropped, storeVars>>
    /\ UNCHANGED <<actVars, effectVars, toolVars, httpVars>>

\* ipc.py, handle_client of connection c, from the return of readline to
\* writer.close(), when the client has sent lines: the connection is closed,
\* with nothing written to it and the lines after the first unread.
HandleClient(c, lines) ==
    /\ c \in DOMAIN conns
    /\ \E eff \in EffectsOfLines(lines) :
          LET r == handle_client(state, lines, eff)
          IN  /\ state' = r.table
              /\ handled' = [ conn |-> c, lines |-> lines,
                              outcome |-> r.outcome, acts |-> r.acts,
                              written |-> r.written, unread |-> r.unread ]
              /\ dropped' = IF r.outcome \in { "malformed", "bad_action" }
                              THEN dropped + 1 ELSE dropped
    /\ conns' = [ d \in (DOMAIN conns) \ {c} |-> conns[d] ]
    /\ UNCHANGED <<accepted, storeVars>>
    /\ UNCHANGED <<actVars, effectVars, toolVars, httpVars>>

NextRelay ==
    \/ \E name \in SessionNames : HttpSessionState(name)
    \/ Connect
    \/ \E c \in 1..MaxConns, lines \in ClientLines : HandleClient(c, lines)

SpecRelay == Init /\ [][NextRelay]_vars

(***************************************************************************)
(* The relay under the scheduling of the event loop.  The event loop       *)
(* resumes the handler of a connection once its readline can return, and   *)
(* the clients of the relay send their line and close (as send_ipc_message *)
(* does), so no open connection waits for ever.  The clients send one      *)
(* payload for each way a handling can end.                                *)
(***************************************************************************)
FairLines ==
    { << >>,
      << NotJson >>,
      send_ipc_message("grot", "charge", TRUE),
      send_ipc_message("ork", "armor_up", TRUE),
      send_ipc_message("ork", "fire_flamethrower", TRUE),
      send_ipc_message("ork", "heal", TRUE) \o send_ipc_message("ork", "heal", TRUE) }

NextRelayFair ==
    \/ \E name \in SessionNames : HttpSessionState(name)
    \/ Connect
    \/ \E c \in 1..MaxConns, lines \in FairLines : HandleClient(c, lines)

SpecRelayFair ==
    /\ Init
    /\ [][NextRelayFair]_vars
    /\ \A c \in 1..MaxConns :
          WF_vars(\E lines \in FairLines : HandleClient(c, lines))

(***************************************************************************)
(* The tool process: the tools are invoked one after another.              *)
(***************************************************************************)
\* mcp_server.py: one invocation of a tool with its two arguments.
CallTool(tool, session_id, player_turn) ==
    /\ Len(toolcalls) < MaxCalls
    /\ LET r == tool_call(tool, session_id, player_turn)
       IN  toolcalls' = Append(toolcalls,
                               [ tool |-> tool, session_id |-> session_id,
                                 player_turn |-> player_turn,
                                 raised |-> r.raised, sent |-> r.sent ])
    /\ UNCHANGED <<actVars, effectVars, serverVars>>

NextTools ==
    \E tool \in Tools, session_id \in SessionNames, player_turn \in BOOLEAN :
        CallTool(tool, session_id, player_turn)

SpecTools == Init /\ [][NextTools]_vars

(***************************************************************************)
(* The table and its file: sessions are created over HTTP, the relay       *)
(* applies actions, every HTTP request ends with write_state, and a start  *)
(* of the server reads the file.                                           *)
(***************************************************************************)
\* The records logged and the enemies defeated, over the sessions of a table.
RECURSIVE TotalOver(_, _)
TotalOver(table, names) ==
    IF names = { }
      THEN 0
      ELSE LET n == CHOOSE x \in names : TRUE
           IN  Len(table[n].actions) + table[n].kills
                 + TotalOver(table, names \ {n})

\* ipc.py, line 27: the call of act the relay makes for a valid message.
RelayedAct(name, action, eff, player_turn) ==
    /\ name \in DOMAIN state
    /\ TotalOver(state, DOMAIN state) < MaxActions
    /\ state' = WithSession(state, name,
                            act(state[name], action, eff, player_turn).session)
    /\ UNCHANGED <<relayVars, storeVars>>
    /\ UNCHANGED <<actVars, effectVars, toolVars, httpVars>>

\* storage.py, storage_middleware: after the response of any HTTP request
\* the table is written to the file.
StorageMiddleware ==
    /\ disk' = write_state(state)
    /\ saved' = state
    /\ loaded' = [ done |-> FALSE, table |-> << >>, of |-> << >> ]
    /\ UNCHANGED <<state, relayVars>>
    /\ UNCHANGED <<actVars, effectVars, toolVars, httpVars>>

\* api.py, lifespan, at a start of the server: the table is read_state() and
\* no connection is open.
Lifespan ==
    /\ state' = read_state(disk)
    /\ loaded' = [ done |-> TRUE, table |-> read_state(disk), of |-> saved ]
    /\ conns' = << >>
    /\ inflight' = 0
    /\ UNCHANGED <<accepted, handled, dropped, disk, saved>>
    /\ UNCHANGED <<actVars, effectVars, toolVars>>

NextStore ==
    \/ \E name \in SessionNames : HttpSessionState(name)
    \/ \E name \in SessionNames, action \in ActionEnum :
         \E eff \in relay_effect(action) : RelayedAct(name, action, eff, TRUE)
    \/ StorageMiddleware
    \/ Lifespan

SpecStore == Init /\ [][NextStore]_vars

(***************************************************************************)
(* The relay beside the HTTP layer.  A request to /session-state is        *)
(* followed from its handler to the write_state of storage_middleware,     *)
(* with the relay's handlers running on the same event loop in between.    *)
(***************************************************************************)
\* api.py, current_session_state, for the cookie name: the session is
\* looked up, created when the table has none, and stored in the table.
HttpRequest(name) ==
    /\ inflight < MaxRequests
    /\ inflight' = inflight + 1
    /\ state' = WithSession(state, name,
                            IF name \in DOMAIN state
                              THEN state[name] ELSE new_session(name))
    /\ UNCHANGED <<relayVars, storeVars>>
    /\ UNCHANGED <<actVars, effectVars, toolVars>>

\* storage_middleware that returns the response without write_state.
HttpResponseWithoutSave ==
    /\ inflight > 0
    /\ inflight' = inflight - 1
    /\ UNCHANGED <<state, relayVars, storeVars>>
    /\ UNCHANGED <<actVars, effectVars, toolVars>>

\* storage.py, storage_middleware, after call_next has returned: the table
\* is written to the file and the response goes out.
HttpResponse ==
    /\ inflight > 0
    /\ inflight' = inflight - 1
    /\ disk' = write_state(state)
    /\ saved' = state
    /\ UNCHANGED <<state, relayVars, loaded>>
    /\ UNCHANGED <<actVars, effectVars, toolVars>>

\* The event loop resumes the middleware after the handler and the relay's
\* handler once its readline can return.
NextDurable ==
    \/ \E name \in SessionNames : HttpRequest(name)
    \/ HttpResponse
    \/ Connect
    \/ \E c \in 1..MaxConns, lines \in FairLines : HandleClient(c, lines)

SpecDurable ==
    /\ Init
    /\ [][NextDurable]_vars
    /\ WF_vars(HttpResponse)
    /\ \A c \in 1..MaxConns :
          WF_vars(\E lines \in FairLines : HandleClient(c, lines))

(***************************************************************************)
(* The floating point arithmetic of act is exact in every reachable state: *)
(* no effect changes armor, and the statements that would raise the        *)
(* enemy's armour are never reached, so both divisors stay 1.              *)
(***************************************************************************)
DivisorsAreOne == session.armor = 1 /\ session.enemyarmor = 1

(***************************************************************************)
(* The cases the statements below are about, in terms of the session       *)
(* before the call (last.pre) and the effect of the call (last.effect).    *)
(***************************************************************************)
\* currenthealth + self_heal <= self_damage * enemyrage / armor
NetLethal ==
    (last.pre.currenthealth + last.effect.self_heal) * last.pre.armor
        <= last.effect.self_damage * last.pre.enemyrage

\* enemycurrenthealth + enemy_heal <= enemy_damage * rage / enemyarmor
DefeatsEnemy ==
    (last.pre.enemycurrenthealth + last.effect.enemy_heal) * last.pre.enemyarmor
        <= last.effect.enemy_damage * last.pre.rage

\* The largest rage loss of any effect of any action.
MaxRageLoss ==
    CHOOSE m \in 0..10 :
        /\ \E a \in ActionEnum : \E e \in effect(a) : e.loose_damage_boost = m
        /\ \A a \in ActionEnum : \A e \in effect(a) : e.loose_damage_boost <= m

(***************************************************************************)
(* C1.  In every state reachable from a new session by act calls,          *)
(* 0 <= enemycurrenthealth <= enemymaxhealth, also after the defeat of an  *)
(* enemy.  The code breaks it: the defeat branch sets enemycurrenthealth   *)
(* to 100 + 50 * kills and never raises enemymaxhealth.                    *)
(***************************************************************************)
C1_EnemyHealthInRange ==
    /\ 0 <= session.enemycurrenthealth
    /\ session.enemycurrenthealth <= session.enemymaxhealth

(***************************************************************************)
(* C2.  In every state reachable from a new session by act calls,          *)
(* 0 <= currenthealth <= maxhealth.                                        *)
(***************************************************************************)
C2_PlayerHealthInRange ==
    /\ 0 <= session.currenthealth
    /\ session.currenthealth <= session.maxhealth

\* A heal that would take the player above maxhealth has been applied and
\* the health stands at maxhealth.
C2_Witness ==
    /\ last.called
    /\ last.pre.currenthealth + last.effect.self_heal > last.pre.maxhealth
    /\ session.currenthealth = session.maxhealth

(***************************************************************************)
(* C3.  In every state reachable from a new session by act calls,          *)
(* armor >= 1 and rage >= 1; a rage of exactly 1 that receives the largest *)
(* rage loss the resolver produces is reset to exactly 1.                  *)
(***************************************************************************)
C3_ArmorAndRageAtLeastOne ==
    /\ session.armor >= 1
    /\ session.rage >= 1
    /\ (last.called /\ last.pre.rage + last.effect.gain_damage_boost
                          - last.effect.loose_damage_boost < 1)
          => session.rage = 1

\* A call on a session whose rage is 1, with the largest rage loss, has run.
C3_Witness ==
    /\ last.called
    /\ last.pre.rage = 1
    /\ last.effect.loose_damage_boost = MaxRageLoss
    /\ MaxRageLoss = 10
    /\ session.rage = 1

(***************************************************************************)
(* C4.  In every reachable state where gameover is true, currenthealth is  *)
(* 0: no act call after the one that set gameover raises it.  The code     *)
(* breaks it: act does not read gameover, and a heal after the end of the  *)
(* game gives the player health again.                                     *)
(***************************************************************************)
C4_GameoverKeepsHealthZero == session.gameover => session.currenthealth = 0

(***************************************************************************)
(* C5.  An act call that is net lethal for the player leaves gameover true *)
(* and currenthealth 0; a call that is not net lethal leaves gameover as   *)
(* it was.                                                                 *)
(***************************************************************************)
C5_LethalExactlySetsGameover ==
    last.called =>
        IF NetLethal
          THEN session.gameover /\ session.currenthealth = 0
          ELSE session.gameover = last.pre.gameover

\* A call whose damage equals the player's health exactly (the boundary of
\* net lethal) has ended the game.
C5_Witness ==
    /\ last.called
    /\ ~last.pre.gameover
    /\ last.pre.currenthealth + last.effect.self_heal
          = last.effect.self_damage * last.pre.enemyrage
    /\ session.gameover

(***************************************************************************)
(* C6.  An act call that defeats the enemy increases kills by exactly 1    *)
(* and sets enemycurrenthealth to 100 + 50 * (the new kills); a call that  *)
(* does not defeat the enemy leaves kills unchanged.                       *)
(***************************************************************************)
C6_DefeatCountsOneKill ==
    last.called =>
        IF DefeatsEnemy
          THEN /\ session.kills = last.pre.kills + 1
               /\ session.enemycurrenthealth = 100 + 50 * session.kills
          ELSE session.kills = last.pre.kills

\* A second enemy has been defeated.
C6_Witness ==
    /\ last.called
    /\ DefeatsEnemy
    /\ last.pre.kills = 1
    /\ session.kills = 2
    /\ session.enemycurrenthealth = 200

(***************************************************************************)
(* C7.  After an act call that defeats the enemy, enemymaxhealth equals    *)
(* 100 + 50 * kills (kills after the increment).  The code breaks it: the  *)
(* assignment names enemymax, not enemymaxhealth.                          *)
(***************************************************************************)
C7_DefeatRaisesEnemyMaxHealth ==
    (last.called /\ DefeatsEnemy)
        => session.enemymaxhealth = 100 + 50 * session.kills

(***************************************************************************)
(* C8.  After an act call that defeats the enemy, enemyrage = enemyarmor   *)
(* = 1 + kills div 2 (kills after the increment) and maxhealth is exactly  *)
(* 20 greater than before the call.  The code breaks it: the call raises   *)
(* before these assignments.                                               *)
(***************************************************************************)
C8_DefeatEscalates ==
    (last.called /\ DefeatsEnemy) =>
        /\ session.enemyrage = 1 + (session.kills \div 2)
        /\ session.enemyarmor = 1 + (session.kills \div 2)
        /\ session.maxhealth = last.pre.maxhealth + 20

(***************************************************************************)
(* C9.  Every act call with an action of the enumeration appends exactly   *)
(* one Action record to the log, also the calls that defeat an enemy or    *)
(* end the game, and leaves the earlier entries as they were.  The code    *)
(* breaks it: a call that defeats the enemy raises before the append.      *)
(***************************************************************************)
C9_EveryCallAppendsOneRecord ==
    last.called =>
        /\ Len(session.actions) = Len(last.pre.actions) + 1
        /\ SubSeq(session.actions, 1, Len(last.pre.actions)) = last.pre.actions
        /\ session.actions[Len(session.actions)].name = last.action
        /\ session.actions[Len(session.actions)].effect = last.effect

(***************************************************************************)
(* C10.  act never raises on valid input: for each action of the           *)
(* enumeration and every effect, the call runs to completion, also on the  *)
(* branch that defeats an enemy.  The code breaks it: that branch assigns  *)
(* self.enemymax, which is no field of the pydantic model.                 *)
(***************************************************************************)
C10_ActNeverRaises == last.called => ~last.raised

(***************************************************************************)
(* Helpers of the statements on the arithmetic of act.                     *)
(***************************************************************************)
\* The smallest integer not below n / d, for d >= 1.
CeilDiv(n, d) == -((-n) \div d)

Min(a, b) == IF a <= b THEN a ELSE b

\* enemycurrenthealth + enemy_heal <= enemy_damage * rage / enemyarmor, with
\* the player's rage as the call's rage update left it.
DefeatsEnemyWithNewRage ==
    (last.pre.enemycurrenthealth + last.effect.enemy_heal) * last.pre.enemyarmor
        <= last.effect.enemy_damage * session.rage

(***************************************************************************)
(* C16.  When the call is not net lethal, the player's health after act    *)
(* is min(maxhealth, ceil(currenthealth + self_heal - self_damage *        *)
(* enemyrage / armor)); when the enemy is not defeated, the enemy's health *)
(* after act is min(enemymaxhealth, ceil(enemycurrenthealth + enemy_heal - *)
(* enemy_damage * rage / enemyarmor)), rage being the player's rage after  *)
(* this call's rage update.                                                *)
(***************************************************************************)
C16_HealthFormulas ==
    last.called =>
        /\ ~NetLethal =>
              session.currenthealth =
                  Min(last.pre.maxhealth,
                      CeilDiv((last.pre.currenthealth + last.effect.self_heal)
                                  * last.pre.armor
                              - last.effect.self_damage * last.pre.enemyrage,
                              last.pre.armor))
        /\ ~DefeatsEnemyWithNewRage =>
              session.enemycurrenthealth =
                  Min(last.pre.enemymaxhealth,
                      CeilDiv((last.pre.enemycurrenthealth
                                   + last.effect.enemy_heal)
                                  * last.pre.enemyarmor
                              - last.effect.enemy_damage * session.rage,
                              last.pre.enemyarmor))

\* A call has hurt the player without ending the game, and has left the
\* enemy, whose health stood above enemymaxhealth, at enemymaxhealth.
C16_Witness ==
    /\ last.called
    /\ ~NetLethal
    /\ ~DefeatsEnemyWithNewRage
    /\ last.effect.self_damage > 0
    /\ session.currenthealth = last.pre.currenthealth - last.effect.self_damage
    /\ last.pre.enemycurrenthealth > last.pre.enemymaxhealth
    /\ session.enemycurrenthealth = last.pre.enemymaxhealth

(***************************************************************************)
(* C17.  The heal action never lowers the health of either side: with      *)
(* gameover false, after act with the heal action currenthealth and        *)
(* enemycurrenthealth are each at least their value before the call.  The  *)
(* code breaks it for the enemy: after a defeat enemycurrenthealth is      *)
(* 100 + 50 * kills while enemymaxhealth is still 100, and the heal caps   *)
(* the enemy's health at enemymaxhealth.                                   *)
(***************************************************************************)
C17_HealNeverLowersHealth ==
    (last.called /\ last.action = "heal" /\ ~last.pre.gameover) =>
        /\ session.currenthealth >= last.pre.currenthealth
        /\ session.enemycurrenthealth >= last.pre.enemycurrenthealth

(***************************************************************************)
(* C18.  The Action record appended by act carries the acting side: actor  *)
(* is player when player_turn is true and enemy when player_turn is        *)
(* false.  The code breaks it: act writes Actor.player whatever            *)
(* player_turn is.                                                         *)
(***************************************************************************)
C18_ActorIsActingSide ==
    (last.called /\ ~last.raised) =>
        session.actions[Len(session.actions)].actor =
            IF last.player_turn THEN "player" ELSE "enemy"

(***************************************************************************)
(* The effects act is given in Spec are effects of the resolver: for each  *)
(* action, effect(action) is the set of the values of Resolve on the rolls *)
(* that randint draws.                                                     *)
(***************************************************************************)
EffectIsResolveOfDraws ==
    \A a \in ActionEnum :
        effect(a) =
            { Resolve(a, hit, r1, r2) :
                hit \in BOOLEAN,
                r1 \in (CASE a = "shoot_rocket" -> randint(0, 50)
                          [] a = "rage_up" -> randint(0, 10)
                          [] a = "heal" -> randint(5, 50)
                          [] OTHER -> {0}),
                r2 \in (CASE a = "heal" -> randint(5, 50)
                          [] OTHER -> randint(0, 8)) }

(***************************************************************************)
(* C15.  For every action of the enumeration and every outcome of the      *)
(* random rolls, the eight fields of the resolved Effect are non-negative  *)
(* integers, the rage loss computed on the miss branches included.         *)
(***************************************************************************)
C15_EffectFieldsNonNegative ==
    resolved.called =>
        /\ resolved.effect.self_heal \in Nat
        /\ resolved.effect.self_damage \in Nat
        /\ resolved.effect.enemy_damage \in Nat
        /\ resolved.effect.enemy_heal \in Nat
        /\ resolved.effect.gain_armor \in Nat
        /\ resolved.effect.loose_armor \in Nat
        /\ resolved.effect.gain_damage_boost \in Nat
        /\ resolved.effect.loose_damage_boost \in Nat

\* A miss whose rage-loss roll came out largest (8) has been resolved, and
\* the loss is 8.
C15_Witness ==
    /\ resolved.called
    /\ resolved.action = "fire_flamethrower"
    /\ ~resolved.hit
    /\ resolved.roll2 = 8
    /\ resolved.effect.self_damage = 100
    /\ resolved.effect.loose_damage_boost = 8

(***************************************************************************)
(* The relay, step by step.  A step is the handling of a connection when   *)
(* it closes one: the connection closed last changes, and handled' holds   *)
(* the lines its client had sent.                                          *)
(***************************************************************************)
Handles == handled'.conn # handled.conn

\* The first line is a JSON object with these keys.
HasKeys(lines, keys) ==
    /\ lines # << >>
    /\ lines[1].json
    /\ keys \subseteq MemberKeys(lines[1].members)

Field(lines, key) == MemberValue(lines[1].members, key)

\* The first line names a session the table does not hold.
NamesMissingSession(lines, table) ==
    /\ HasKeys(lines, { "session_name" })
    /\ Field(lines, "session_name") \notin DOMAIN table

\* The first line is no JSON, or lacks a field, or names an action outside
\* the enumeration.
BadMessage(lines) ==
    /\ lines # << >>
    /\ \/ ~HasKeys(lines, { "session_name", "action", "player_turn" })
       \/ Field(lines, "action") \notin ActionEnum

\* The first line is a complete message for a session of the table.
ValidMessage(lines, table) ==
    /\ HasKeys(lines, { "session_name", "action", "player_turn" })
    /\ Field(lines, "action") \in ActionEnum
    /\ Field(lines, "session_name") \in DOMAIN table

\* The tables that one call of act for the first line leaves.
Applied(lines, table) ==
    LET n == Field(lines, "session_name")
    IN  { [ table EXCEPT ![n] = act(table[n], Field(lines, "action"), eff,
                                    Field(lines, "player_turn")).session ] :
            eff \in relay_effect(Field(lines, "action")) }

\* C11: handling a connection whose message names a session that is no key
\* of the table leaves the table as it was: the same keys, every field of
\* every session the same; the relay creates no session.
C11_UnknownSessionNoMutation ==
    [][ Handles /\ NamesMissingSession(handled'.lines, state)
          => state' = state ]_vars

\* A connection that named a missing session has been handled while the
\* table held another session.
C11_Witness ==
    /\ NamesMissingSession(handled.lines, state)
    /\ handled.outcome = "no_session"
    /\ DOMAIN state # { }

\* C12: handling a connection whose message is malformed or names an action
\* outside the enumeration leaves the table as it was; and after any number
\* of such connections, the handling of a connection with a valid message
\* applies the message.
C12_BadMessageDropped ==
    [][ Handles
          => /\ BadMessage(handled'.lines) => state' = state
             /\ ValidMessage(handled'.lines, state) /\ dropped > 0
                  => /\ state' \in Applied(handled'.lines, state)
                     /\ state' # state ]_vars

\* A valid message has been applied after a bad message had been dropped.
C12_Witness ==
    /\ dropped > 0
    /\ ValidMessage(handled.lines, state)
    /\ handled.outcome = "applied"

\* C13: with several connections open, the handling of one is one whole call
\* of act on the table as the handling before it left it, and the other
\* open connections are as they were; so the table is the result of
\* applying the messages in the order their reads completed.
C13_ActsDoNotInterleave ==
    [][ Handles
          => /\ state' \in (IF ValidMessage(handled'.lines, state)
                              THEN Applied(handled'.lines, state)
                              ELSE { state })
             /\ \A d \in DOMAIN conns : d # handled'.conn =>
                   d \in DOMAIN conns' /\ conns'[d] = conns[d] ]_vars

\* A connection accepted later has been handled, and its message applied,
\* while a connection accepted before it is still open.
C13_Witness ==
    /\ handled.outcome = "applied"
    /\ \E d \in DOMAIN conns : d < handled.conn

\* C14: read_state after write_state of a table returns that table: at
\* every start of the server, the table read from the file has the keys of
\* the table the file was written from and, for every session, the same
\* value of every field.
C14_RoundTrip ==
    loaded.done /\ disk.exists =>
      /\ DOMAIN loaded.table = DOMAIN loaded.of
      /\ \A n \in DOMAIN loaded.of : \A f \in GameSessionFields :
            loaded.table[n][f] = loaded.of[n][f]

\* The server has started from the file of a table with a session that has
\* defeated an enemy and logged an action.
C14_Witness ==
    /\ loaded.done
    /\ disk.exists
    /\ \E n \in DOMAIN loaded.of :
          loaded.of[n].kills > 0 /\ loaded.of[n].actions # << >>

\* The server has started from the file of a table without sessions.
C14_WitnessEmpty ==
    /\ loaded.done
    /\ disk.exists
    /\ DOMAIN loaded.of = { }

\* C19: every tool of the tool process, when invoked, sends exactly one
\* relay message, and the action of that message is a value of the
\* enumeration that act accepts.
C19_EveryToolSendsOneValidMessage ==
    \A i \in DOMAIN toolcalls :
        /\ Len(toolcalls[i].sent) = 1
        /\ Len(toolcalls[i].sent[1]) = 1
        /\ HasKeys(toolcalls[i].sent[1], { "action" })
        /\ Field(toolcalls[i].sent[1], "action") \in ActionEnum

\* The six tools whose member the enumeration has do send one message each
\* with an action act accepts.
C19_WorkingToolsSendOneValidMessage ==
    \A i \in DOMAIN toolcalls :
        toolcalls[i].tool \in DOMAIN ActionEnumMembers =>
            /\ ~toolcalls[i].raised
            /\ Len(toolcalls[i].sent) = 1
            /\ Len(toolcalls[i].sent[1]) = 1
            /\ Field(toolcalls[i].sent[1], "action") \in ActionEnum

C21_EnemyHealthAtLeastOne == session.enemycurrenthealth >= 1

\* A call has taken exactly the health the enemy had (the boundary of the
\* defeat), and the enemy was replaced.
C21_Witness ==
    /\ last.called
    /\ last.effect.enemy_damage > 0
    /\ (last.pre.enemycurrenthealth + last.effect.enemy_heal)
           * last.pre.enemyarmor = last.effect.enemy_damage * session.rage
    /\ session.kills = last.pre.kills + 1

\* C22: in every state reachable from a new session by act calls,
\* currenthealth = 0 implies gameover: the branch that does not end the game
\* never leaves the player's health at 0.
C22_ZeroHealthIsGameover == session.currenthealth = 0 => session.gameover

\* A call has taken the player's health to 0.
C22_Witness ==
    /\ last.called
    /\ last.pre.currenthealth > 0
    /\ ~last.pre.gameover
    /\ session.currenthealth = 0

(***************************************************************************)
(* The relay and the file.                                                 *)
(***************************************************************************)
\* No HTTP request is in flight and no relay connection is pending.
Idle == inflight = 0 /\ DOMAIN conns = { }

\* C23, as stated: whenever the process is idle, the table read from the
\* file equals the table in memory, so that a mutation applied by the relay
\* is saved without a further HTTP request.  The code breaks it: the relay
\* never calls write_state.
C23_IdleSnapshotEqualsTable == Idle => read_state(disk) = state

\* C23, amended: the handling of a relay connection leaves the file as it
\* was; the file changes only at the end of an HTTP request, and there the
\* table read from it equals the table in memory.  A mutation applied by
\* the relay stays in memory until the next HTTP request ends.
C23_OnlyResponsesSave ==
    [][ /\ Handles => disk' = disk
        /\ disk' # disk => inflight' = inflight - 1
        /\ inflight' < inflight
             => state' = state /\ read_state(disk') = state' ]_vars

\* A mutation applied by the relay has been saved at the end of a later
\* HTTP request, and the process is idle.
C23_Witness ==
    /\ Idle
    /\ handled.outcome = "applied"
    /\ disk.exists
    /\ read_state(disk) = state
    /\ \E n \in DOMAIN state : state[n].actions # << >>

=============================================================================
